---- MODULE Spec2Model ----
(***************************************************************************)
(* Socialens: the database seeding scripts (Astradb.py, DbConnect.py) and  *)
(* the Streamlit dashboard (app2.py).                                      *)
(*                                                                         *)
(* One run of one script is modelled at a time (variable script).  The     *)
(* external services (Astra DB, the Groq LLM) are modelled by the outcome  *)
(* of each call: it returns, or it raises.                                 *)
(***************************************************************************)
EXTENDS Integers, Sequences, FiniteSets, TLC

VARIABLES
    script,      \* which script runs: "Astradb", "DbConnect" or "app2"
    pc,          \* position of the running script
    env,         \* the environment variables that are defined
    csv,         \* the CSV file handed to upload_csv_data_to_db
    client,      \* TRUE once DataAPIClient(token) was constructed
    trace,       \* the steps of main attempted so far, with their outcome
    stdout,      \* what the script printed
    raised,      \* the exception that left the script, "none" if none
    inserted,    \* the documents handed to insert_many, <<>> before
    collection,  \* the documents of the remote collection
    df,          \* PostAnalyzer.df
    post_type,   \* the value of the "Select Content Type" selectbox
    post_id,     \* the value of the "Select Post" selectbox, None if no option
    metrics,     \* what get_post_metrics returned for the current click
    events       \* what the current rerun of the page did, in order

seedVars == <<env, csv, client, trace, stdout, raised, inserted, collection>>
dashVars == <<df, post_type, post_id, metrics, events>>
vars == <<script, pc, seedVars, dashVars>>

(***************************************************************************)
(* Bounds of the model.                                                    *)
(***************************************************************************)
MaxCsvRows == 2
MaxPosts == 2

RECURSIVE SeqsUpTo(_, _)
SeqsUpTo(S, n) ==
    IF n = 0 THEN {<<>>}
    ELSE LET shorter == SeqsUpTo(S, n - 1)
         IN  shorter \cup {Append(s, x) : s \in {t \in shorter : Len(t) = n - 1}, x \in S}

None == [kind |-> "None"]

(***************************************************************************)
(* Astradb.py / DbConnect.py                                               *)
(***************************************************************************)
EnvNames == {"ASTRA_DB_API_ENDPOINT", "ASTRA_DB_APPLICATION_TOKEN"}

\* The literals of connect_to_database (abbreviated).
endpoint == "https://333fabb7-be16-40b2-8eb9-6ddcfe9ed97f-us-east-2.apps.astra.datastax.com"
token == "AstraCS:..."

\* Python's truth value of a str.
Truthy(s) == s # ""

\* `if not token or not endpoint`
MissingConfig == ~Truthy(token) \/ ~Truthy(endpoint)

\* The columns a CSV header may hold, and the text of a cell ("" is an empty cell).
ColumnNames == {"topic", "hashtags_used", "likes", "$vectorize"}
RawCells == {"", "fitness"}

CsvFiles ==
    UNION {{[header |-> h, lines |-> l] : l \in SeqsUpTo([h -> RawCells], MaxCsvRows)}
           : h \in SUBSET ColumnNames}

NaN == [kind |-> "nan", text |-> ""]
PyStrValue(s) == [kind |-> "str", text |-> s]

\* pd.read_csv on one cell: an empty cell is NaN, any other text is kept.
ParseCell(raw) == IF raw = "" THEN NaN ELSE PyStrValue(raw)

\* pd.read_csv: one row of the frame per data line of the file.
read_csv(file) ==
    [columns |-> file.header,
     rows    |-> [i \in 1..Len(file.lines) |->
                    [c \in file.header |-> ParseCell(file.lines[i][c])]]]

\* str() of a cell inside an f-string.
PyStr(cell) == IF cell.kind = "nan" THEN "nan" ELSE cell.text

\* f"summary: {row['topic']} | hashtags: {row['hashtags_used']}"
VectorizeSwapped(row) ==
    "summary: " \o PyStr(row["hashtags_used"]) \o " | hashtags: " \o PyStr(row["topic"])
Vectorize(row) ==
    "summary: " \o PyStr(row["topic"]) \o " | hashtags: " \o PyStr(row["hashtags_used"])

\* {**row.to_dict(), "$vectorize": ...}: the later key wins.
Document(row) ==
    [k \in (DOMAIN row) \cup {"$vectorize"} |->
        IF k = "$vectorize" THEN PyStrValue(Vectorize(row)) ELSE row[k]]

\* The list comprehension over df.iterrows().
DocumentsDropLast(frame) ==
    [i \in 1..(Len(frame.rows) - 1) |-> Document(frame.rows[i])]
Documents(frame) ==
    [i \in 1..Len(frame.rows) |-> Document(frame.rows[i])]

\* row['topic'] or row['hashtags_used'] raises KeyError for the first row.
RaisesKeyError(frame) ==
    /\ Len(frame.rows) > 0
    /\ ~({"topic", "hashtags_used"} \subseteq frame.columns)

\* `except Exception as e: print(...); raise` of Astradb.connect_to_database
ConnectErrorSilent(out) == out
ConnectErrorPrinted(out) == Append(out, "Error connecting to database")

ConnectErrorSwallowed == "connected"
ConnectErrorPc == "raised"

Step(name, ok) == [step |-> name, ok |-> ok]

\* Astradb.py, main: database = connect_to_database()
Astradb_connect_to_database(ok) ==
    /\ script = "Astradb"
    /\ pc = "start"
    /\ IF MissingConfig
       THEN /\ raised' = "RuntimeError"
            /\ pc' = "raised"
            /\ UNCHANGED <<client, trace, stdout>>
       ELSE /\ client' = TRUE
            /\ trace' = Append(trace, Step("connect", ok))
            /\ IF ok
               THEN /\ stdout' = Append(stdout, "Connected to database")
                    /\ pc' = "connected"
                    /\ UNCHANGED raised
               ELSE /\ stdout' = ConnectErrorPrinted(stdout)
                    /\ raised' = "Exception"
                    /\ pc' = ConnectErrorPc
    /\ UNCHANGED <<script, env, csv, inserted, collection, dashVars>>

\* Astradb.py, main: collection = create_collection(database, ...)
create_collection(ok) ==
    /\ script = "Astradb"
    /\ pc = "connected"
    /\ trace' = Append(trace, Step("create_collection", ok))
    /\ IF ok
       THEN /\ stdout' = Append(stdout, "Created collection")
            /\ pc' = "created"
            /\ UNCHANGED raised
       ELSE /\ raised' = "Exception"
            /\ pc' = "raised"
            /\ UNCHANGED stdout
    /\ UNCHANGED <<script, env, csv, client, inserted, collection, dashVars>>

\* Astradb.py, main: upload_csv_data_to_db(database, collection, csv_file_path)
upload_csv_data_to_db(outcome) ==
    /\ script = "Astradb"
    /\ pc = "created"
    /\ LET frame == read_csv(csv)
       IN  CASE outcome = "read_error" ->
                  /\ trace' = Append(trace, Step("insert", FALSE))
                  /\ raised' = "FileNotFoundError"
                  /\ pc' = "raised"
                  /\ UNCHANGED <<stdout, inserted, collection>>
             [] outcome # "read_error" /\ RaisesKeyError(frame) ->
                  /\ trace' = Append(trace, Step("insert", FALSE))
                  /\ raised' = "KeyError"
                  /\ pc' = "raised"
                  /\ UNCHANGED <<stdout, inserted, collection>>
             [] outcome = "insert_error" /\ ~RaisesKeyError(frame) ->
                  /\ trace' = Append(trace, Step("insert", FALSE))
                  /\ inserted' = <<Documents(frame)>>
                  /\ raised' = "Exception"
                  /\ pc' = "raised"
                  /\ UNCHANGED <<stdout, collection>>
             [] outcome = "ok" /\ ~RaisesKeyError(frame) ->
                  /\ trace' = Append(trace, Step("insert", TRUE))
                  /\ inserted' = <<Documents(frame)>>
                  /\ collection' = collection \o Documents(frame)
                  /\ stdout' = Append(stdout, "Inserted items")
                  /\ pc' = "done"
                  /\ UNCHANGED raised
    /\ UNCHANGED <<script, env, csv, client, dashVars>>

\* DbConnect.py: the module-level connect_to_database() call (no try/except).
DbConnect_connect_to_database(ok) ==
    /\ script = "DbConnect"
    /\ pc = "start"
    /\ IF MissingConfig
       THEN /\ raised' = "RuntimeError"
            /\ pc' = "raised"
            /\ UNCHANGED <<client, trace, stdout>>
       ELSE /\ client' = TRUE
            /\ trace' = Append(trace, Step("connect", ok))
            /\ IF ok
               THEN /\ stdout' = Append(stdout, "Connected to database")
                    /\ pc' = "done"
                    /\ UNCHANGED raised
               ELSE /\ raised' = "Exception"
                    /\ pc' = "raised"
                    /\ UNCHANGED stdout
    /\ UNCHANGED <<script, env, csv, inserted, collection, dashVars>>

(***************************************************************************)
(* app2.py                                                                 *)
(***************************************************************************)
\* Text is a sequence of characters, so that split(" (") is computed.
Digits == {"0", "1", "2", "3", "4", "5", "6", "7", "8", "9"}

\* The post_id and topic cells of the CSV file, as text.
RawPostIds == {<<"p">>, <<"p", " ", "(", "2">>, <<"7">>}
RawTopics == {<<"t">>, <<"a", " ", "(", "b", ")">>}
RowTypes == {"reel", "video"}

\* options=['carousel', 'video', 'reel', 'static_image']
ContentTypes == <<"carousel", "video", "reel", "static_image">>

numeric_columns == <<"likes", "comments", "shares", "saves", "reach", "engagement_rate">>

\* The numeric cells of a CSV line (engagement_rate in hundredths).
MetricCells ==
    {[likes |-> 10000, comments |-> 0, shares |-> 50, saves |-> 3,
      reach |-> 10001, engagement_rate |-> 7],
     [likes |-> 10001, comments |-> 0, shares |-> 150, saves |-> 9,
      reach |-> 10000, engagement_rate |-> 0]}

CsvLines ==
    {[post_id |-> p, post_type |-> ty, topic |-> to, numbers |-> m] :
        p \in RawPostIds, ty \in RowTypes, to \in RawTopics, m \in MetricCells}

EngagementFiles == SeqsUpTo(CsvLines, MaxPosts)

IsNumeric(text) == Len(text) > 0 /\ \A i \in 1..Len(text) : text[i] \in Digits

\* pd.read_csv infers one dtype per column: int64 when every cell is a number,
\* object (str) otherwise.
ColumnKind(file, col) ==
    IF Len(file) > 0 /\ \A i \in 1..Len(file) : IsNumeric(file[i][col])
    THEN "int" ELSE "str"

\* pd.read_csv("mockGeneratedData/raw/social_media_engagement.csv")
read_engagement_csv(file) ==
    [i \in 1..Len(file) |->
        [post_id   |-> [kind |-> ColumnKind(file, "post_id"), text |-> file[i].post_id],
         post_type |-> file[i].post_type,
         topic     |-> [kind |-> ColumnKind(file, "topic"), text |-> file[i].topic],
         numbers   |-> file[i].numbers]]

\* f"{pid} ({row['topic']})"
Option(row) == row.post_id.text \o <<" ", "(">> \o row.topic.text \o <<")">>

\* self.df[self.df['post_type'] == post_type]
AllRows(frame, ptype) == frame
TypeRows(frame, ptype) == SelectSeq(frame, LAMBDA row : row.post_type = ptype)

\* PostAnalyzer.get_available_posts (post_type is never empty here)
get_available_posts(frame, ptype) ==
    LET filtered_df == TypeRows(frame, ptype)
    IN  [i \in 1..Len(filtered_df) |-> Option(filtered_df[i])]

Min(S) == CHOOSE x \in S : \A y \in S : x <= y

\* post_id.split(" (")[0]
SplitFirst(text) ==
    LET at == {i \in 1..(Len(text) - 1) : text[i] = " " /\ text[i + 1] = "("}
    IN  IF at = {} THEN text ELSE SubSeq(text, 1, Min(at) - 1)

\* type_stats['post_id'] == actual_post_id: a str equals only a str cell.
CellEqualsStr(cell, text) == cell.kind = "str" /\ cell.text = text

RECURSIVE SumSeq(_)
SumSeq(s) == IF s = <<>> THEN 0 ELSE Head(s) + SumSeq(Tail(s))

\* Python's round(): the nearest integer to a/b (b > 0), a tie to the even one.
RoundHalfEven(a, b) ==
    LET q == a \div b
        r == a % b
    IN  IF 2 * r < b THEN q
        ELSE IF 2 * r > b THEN q + 1
        ELSE IF q % 2 = 0 THEN q ELSE q + 1

\* type_stats[numeric_columns].agg(['mean', 'median', 'min', 'max']) for one
\* column: the mean as sum/count, the median as twice its value.
ColumnStats(values) ==
    LET sorted == SortSeq(values, LAMBDA a, b : a < b)
        n == Len(values)
    IN  [mean   |-> [sum |-> SumSeq(values), count |-> n],
         median |-> IF n % 2 = 1 THEN 2 * sorted[(n + 1) \div 2]
                    ELSE sorted[n \div 2] + sorted[n \div 2 + 1],
         min    |-> sorted[1],
         max    |-> sorted[n]]

Float(h) == [kind |-> "float", hundredths |-> h]
FloatNaN == [kind |-> "nan", hundredths |-> 0]

\* round((post[col] / stats[col]['mean'] - 1) * 100, 2), in hundredths; a zero
\* mean makes the quotient of the numpy values nan.
VsAvg(value, mean) ==
    IF mean.sum = 0 THEN FloatNaN
    ELSE Float(RoundHalfEven((value * mean.count - mean.sum) * 10000, mean.sum))

PerformanceKeys == {numeric_columns[i] \o "_vs_avg" : i \in 1..Len(numeric_columns)}
Columns == {numeric_columns[i] : i \in 1..Len(numeric_columns)}

\* PostAnalyzer.get_post_metrics
get_post_metrics(frame, option, ptype) ==
    LET actual_post_id == SplitFirst(option)
        type_stats == TypeRows(frame, ptype)
        found == SelectSeq(type_stats, LAMBDA row : CellEqualsStr(row.post_id, actual_post_id))
    IN  IF found = <<>>
        THEN [post |-> None, stats |-> None, performance |-> None]
        ELSE LET post == found[1]
                 stats == [col \in Columns |->
                             ColumnStats([i \in 1..Len(type_stats) |-> type_stats[i].numbers[col]])]
             IN  [post |-> post,
                  stats |-> stats,
                  performance |->
                      [k \in PerformanceKeys |->
                          LET col == CHOOSE c \in Columns : c \o "_vs_avg" = k
                          IN  VsAvg(post.numbers[col], stats[col].mean)]]

\* What the "Select Post" selectbox holds after a rerun with new options.
FirstOption(options) == IF options = <<>> THEN None ELSE [kind |-> "str", text |-> options[1]]

\* The user picks a content type; the page reruns.
SelectContentType(t) ==
    /\ script = "app2"
    /\ pc = "idle"
    /\ post_type' = t
    /\ post_id' = FirstOption(get_available_posts(df, t))
    /\ metrics' = None
    /\ events' = <<>>
    /\ UNCHANGED <<script, pc, df, seedVars>>

\* The user picks one of the options of the "Select Post" selectbox.
SelectPost(i) ==
    /\ script = "app2"
    /\ pc = "idle"
    /\ i \in 1..Len(get_available_posts(df, post_type))
    /\ post_id' = [kind |-> "str", text |-> get_available_posts(df, post_type)[i]]
    /\ metrics' = None
    /\ events' = <<>>
    /\ UNCHANGED <<script, pc, df, post_type, seedVars>>

\* main, the body of `if st.button(...)` up to the call of the LLM.
BeforeLlmChartLast == <<"filter", "aggregate", "post_details", "llm_call", "chart">>
BeforeLlm == <<"filter", "aggregate", "post_details", "chart", "llm_call">>

NotFoundSilent == <<"filter">>
NotFound == <<"filter", "st.error: Could not find post data.">>

ClickGenerateAnalysis ==
    /\ script = "app2"
    /\ pc = "idle"
    /\ IF post_id # None
       THEN LET m == get_post_metrics(df, post_id.text, post_type)
            IN  /\ metrics' = m
                /\ IF m.post # None
                   THEN /\ events' = BeforeLlm
                        /\ pc' = "llm"
                   ELSE /\ events' = NotFound
                        /\ pc' = "idle"
       ELSE /\ metrics' = None
            /\ events' = <<>>
            /\ pc' = "idle"
    /\ UNCHANGED <<script, df, post_type, post_id, seedVars>>

\* generate_analysis: chain.invoke returns or raises; then the rest of main.
AnalysisError == <<"llm_raise", "st.error: Error generating analysis", "return None">>

AfterLlm(outcome) ==
    CASE outcome = "content" -> <<"llm_return", "analysis">>
      [] outcome = "empty"   -> <<"llm_return">>
      [] outcome = "error"   -> AnalysisError

generate_analysis_returns(outcome) ==
    /\ script = "app2"
    /\ pc = "llm"
    /\ events' = events \o AfterLlm(outcome) \o <<"raw_data">>
    /\ pc' = "idle"
    /\ UNCHANGED <<script, df, post_type, post_id, metrics, seedVars>>

SeedIdle ==
    /\ env = {}
    /\ csv = [header |-> {}, lines |-> <<>>]
    /\ client = FALSE
    /\ trace = <<>>
    /\ stdout = <<>>
    /\ raised = "none"
    /\ inserted = <<>>
    /\ collection = <<>>

DashIdle ==
    /\ df = <<>>
    /\ post_type = "carousel"
    /\ post_id = None
    /\ metrics = None
    /\ events = <<>>

SeedInit ==
    /\ script \in {"Astradb", "DbConnect"}
    /\ pc = "start"
    /\ env \in SUBSET EnvNames
    /\ csv \in IF script = "Astradb" THEN CsvFiles ELSE {[header |-> {}, lines |-> <<>>]}
    /\ client = FALSE
    /\ trace = <<>>
    /\ stdout = <<>>
    /\ raised = "none"
    /\ inserted = <<>>
    /\ collection = <<>>
    /\ DashIdle

DashInit ==
    /\ script = "app2"
    /\ pc = "idle"
    /\ \E file \in EngagementFiles :
         /\ df = read_engagement_csv(file)
         /\ post_id = FirstOption(get_available_posts(df, ContentTypes[1]))
    /\ post_type = ContentTypes[1]
    /\ metrics = None
    /\ events = <<>>
    /\ SeedIdle

Init == SeedInit \/ DashInit

Next ==
    \/ \E ok \in BOOLEAN : Astradb_connect_to_database(ok)
    \/ \E ok \in BOOLEAN : create_collection(ok)
    \/ \E outcome \in {"ok", "read_error", "insert_error"} : upload_csv_data_to_db(outcome)
    \/ \E ok \in BOOLEAN : DbConnect_connect_to_database(ok)
    \/ \E i \in 1..Len(ContentTypes) : SelectContentType(ContentTypes[i])
    \/ \E i \in 1..MaxPosts : SelectPost(i)
    \/ ClickGenerateAnalysis
    \/ \E outcome \in {"content", "empty", "error"} : generate_analysis_returns(outcome)

Spec == Init /\ [][Next]_vars

(***************************************************************************)
(* Properties                                                              *)
(***************************************************************************)
Last(s) == s[Len(s)]
Seed == script \in {"Astradb", "DbConnect"}
Positions(e) == {i \in 1..Len(events) : events[i] = e}
Printed(msg) == \E i \in 1..Len(stdout) : stdout[i] = msg

\* C1: when upload_csv_data_to_db completes without error, insert_many was
\* called once, with exactly one document per data row of the CSV, and the
\* collection holds as many documents as the CSV has data rows.
C1_RowCountEqualsInsertedCount ==
    (script = "Astradb" /\ pc = "done") =>
        /\ Len(inserted) = 1
        /\ Len(inserted[1]) = Len(csv.lines)
        /\ Len(collection) = Len(csv.lines)

C1_Witness ==
    script = "Astradb" /\ pc = "done" /\ Len(csv.lines) >= 2 /\ Len(collection) >= 2

\* The text of a CSV cell as it appears in the derived field.
ShownCell(raw) == IF raw = "" THEN "nan" ELSE raw
ExpectedText(line) ==
    "summary: " \o ShownCell(line["topic"]) \o " | hashtags: " \o ShownCell(line["hashtags_used"])
ExpectedCell(raw) == IF raw = "" THEN NaN ELSE [kind |-> "str", text |-> raw]

\* C2 as stated: every document passed to insert_many holds every column of
\* its row unchanged and exactly one additional key "$vectorize" with the text
\* "summary: <topic> | hashtags: <hashtags_used>" of that row.
C2_Original ==
    \A c \in 1..Len(inserted) : \A i \in 1..Len(inserted[c]) :
        LET doc == inserted[c][i]
            line == csv.lines[i]
        IN  /\ Cardinality(DOMAIN doc) = Cardinality(DOMAIN line) + 1
            /\ DOMAIN doc = (DOMAIN line) \cup {"$vectorize"}
            /\ \A k \in DOMAIN line : doc[k] = ExpectedCell(line[k])
            /\ doc["$vectorize"] = [kind |-> "str", text |-> ExpectedText(line)]

\* C2 amended: every document holds the key "$vectorize" with the text
\* "summary: <topic> | hashtags: <hashtags_used>" of its row and every other
\* column of its row unchanged; "$vectorize" is an additional key exactly when
\* the CSV has no column of that name, and replaces that column's value otherwise.
C2_DocumentIsRowPlusVectorize ==
    \A c \in 1..Len(inserted) : \A i \in 1..Len(inserted[c]) :
        LET doc == inserted[c][i]
            line == csv.lines[i]
        IN  /\ DOMAIN doc = (DOMAIN line) \cup {"$vectorize"}
            /\ \A k \in (DOMAIN line) \ {"$vectorize"} : doc[k] = ExpectedCell(line[k])
            /\ doc["$vectorize"] = [kind |-> "str", text |-> ExpectedText(line)]
            /\ ("$vectorize" \notin DOMAIN line) =>
                   Cardinality(DOMAIN doc) = Cardinality(DOMAIN line) + 1

C2_Witness ==
    /\ Len(inserted) = 1
    /\ Len(inserted[1]) >= 2
    /\ "likes" \in csv.header
    /\ "$vectorize" \notin csv.header
    /\ csv.lines[1]["topic"] # csv.lines[1]["hashtags_used"]

SeedOrder == <<"connect", "create_collection", "insert">>

\* C3: the steps of main are attempted in the order connect, create
\* collection, insert rows, each at most once, each only after the one before
\* succeeded, and nothing is attempted after a step that failed.
C3_SinglePassOrder ==
    script = "Astradb" =>
        /\ Len(trace) <= Len(SeedOrder)
        /\ \A i \in 1..Len(trace) : trace[i].step = SeedOrder[i]
        /\ \A i \in 1..(Len(trace) - 1) : trace[i].ok
        /\ (raised # "none") => (trace = <<>> \/ ~Last(trace).ok)

C3_Witness ==
    script = "Astradb" /\ Len(trace) = 3 /\ Last(trace).ok /\ pc = "done"

NetworkCallFailed == Seed /\ trace # <<>> /\ ~Last(trace).ok /\ raised = "Exception"

\* C4 as stated: when a network call of a script fails, the error message is
\* printed and the exception is propagated; it is never swallowed and the
\* script never continues with a missing result.
C4_Original ==
    /\ NetworkCallFailed =>
           /\ pc = "raised"
           /\ \E i \in 1..Len(stdout) : stdout[i] = "Error connecting to database"
    /\ (script = "app2" /\ Positions("llm_raise") # {}) =>
           /\ pc = "raised"
           /\ Positions("raw_data") = {}

\* C4 amended: a failed network call of a seeding script always propagates its
\* exception and ends the script, and the script prints the error message only
\* for get_database in Astradb.connect_to_database; a failed LLM call in
\* generate_analysis is shown with st.error and swallowed: None is returned and
\* the dashboard goes on, without the analysis text.
C4_ErrorSurfacing ==
    /\ NetworkCallFailed =>
           /\ pc = "raised"
           /\ Printed("Error connecting to database")
                  <=> (script = "Astradb" /\ Last(trace).step = "connect")
    /\ (Seed /\ raised # "none") => pc = "raised"
    /\ (script = "app2" /\ Positions("llm_raise") # {}) =>
           /\ pc = "idle"
           /\ Positions("st.error: Error generating analysis") # {}
           /\ Positions("return None") # {}
           /\ Positions("analysis") = {}
           /\ Last(events) = "raw_data"

C4_Witness ==
    script = "Astradb" /\ NetworkCallFailed /\ Last(trace).step = "connect"

\* C5: connect_to_database raises RuntimeError, before any client is created
\* or network call is made, whenever ASTRA_DB_API_ENDPOINT or
\* ASTRA_DB_APPLICATION_TOKEN is not defined in the environment.
C5_RaisesWhenEnvMissing ==
    (Seed /\ pc # "start" /\ ~(EnvNames \subseteq env)) =>
        /\ raised = "RuntimeError"
        /\ ~client
        /\ trace = <<>>

Before(a, b) == \A j \in Positions(b) : \E i \in Positions(a) : i < j

\* C6 as stated: per click the order is filter, aggregate, LLM call, render;
\* the LLM is called at most once, only after the post was found and its
\* statistics and performance were computed, and neither the chart nor the
\* text is rendered before the LLM call has returned.
C6_Original ==
    script = "app2" =>
        /\ Cardinality(Positions("llm_call")) <= 1
        /\ Before("filter", "aggregate")
        /\ Before("aggregate", "llm_call")
        /\ Before("llm_return", "chart")
        /\ Before("llm_return", "analysis")

\* C6 amended: per click the order is filter, aggregate, render the post
\* details and the chart, call the LLM, render the text; the LLM is called at
\* most once, only after the post was found and its statistics and performance
\* were computed; the chart is rendered before the LLM is called, and the
\* analysis text only after the LLM call has returned.
C6_ClickOrder ==
    script = "app2" =>
        /\ Cardinality(Positions("llm_call")) <= 1
        /\ Before("filter", "aggregate")
        /\ Before("aggregate", "chart")
        /\ Before("chart", "llm_call")
        /\ Before("llm_call", "llm_return")
        /\ Before("llm_return", "analysis")
        /\ Positions("llm_call") # {} =>
               /\ metrics # None
               /\ metrics.post # None
               /\ metrics.stats # None
               /\ metrics.performance # None

C6_Witness ==
    script = "app2" /\ Positions("analysis") # {} /\ Positions("chart") # {}

\* The rows of the frame of one post_type, and a column's sum over them.
RowsOfType(ptype) == {i \in 1..Len(df) : df[i].post_type = ptype}
RECURSIVE SumOver(_, _)
SumOver(I, col) ==
    IF I = {} THEN 0
    ELSE LET i == CHOOSE x \in I : TRUE
         IN  df[i].numbers[col] + SumOver(I \ {i}, col)

SixKeys ==
    {"likes_vs_avg", "comments_vs_avg", "shares_vs_avg", "saves_vs_avg",
     "reach_vs_avg", "engagement_rate_vs_avg"}
ColumnOf(key) ==
    CASE key = "likes_vs_avg" -> "likes"
      [] key = "comments_vs_avg" -> "comments"
      [] key = "shares_vs_avg" -> "shares"
      [] key = "saves_vs_avg" -> "saves"
      [] key = "reach_vs_avg" -> "reach"
      [] key = "engagement_rate_vs_avg" -> "engagement_rate"

PostFound == script = "app2" /\ metrics # None /\ metrics.post # None
IsNegative(v) == v.kind = "float" /\ v.hundredths < 0

\* value v is (p / (S / n) - 1) * 100 rounded to 2 decimals (NaN for S = 0)
IsRoundedVsAvg(v, p, S, n) ==
    IF S = 0 THEN v.kind = "nan"
    ELSE /\ v.kind = "float"
         /\ LET d == v.hundredths * S - (p * n - S) * 10000
            IN  2 * d <= S /\ 2 * d >= -S

Clicked == script = "app2" /\ metrics # None

\* The text before the first " (" of the selected option.
RECURSIVE CutAtParen(_)
CutAtParen(text) ==
    IF Len(text) < 2 THEN text
    ELSE IF text[1] = " " /\ text[2] = "(" THEN <<>>
    ELSE <<text[1]>> \o CutAtParen(Tail(text))

NoRowHasSelectedId ==
    ~ \E i \in RowsOfType(post_type) :
          df[i].post_id = [kind |-> "str", text |-> CutAtParen(post_id.text)]

\* C8: when no row of the selected post_type has the selected post id,
\* get_post_metrics returns (None, None, None) without computing a statistic,
\* and the dashboard shows "Could not find post data.", renders no chart and
\* does not call the LLM.
C8_NotFound ==
    (Clicked /\ NoRowHasSelectedId) =>
        /\ metrics = [post |-> None, stats |-> None, performance |-> None]
        /\ Positions("aggregate") = {}
        /\ Positions("st.error: Could not find post data.") # {}
        /\ Positions("chart") = {}
        /\ Positions("llm_call") = {}
        /\ pc = "idle"

C8_Witness ==
    Clicked /\ NoRowHasSelectedId /\ RowsOfType(post_type) # {}

\* C9: every offered option belongs to a row of the selected post_type, and
\* selecting it finds a post (never None) whose post_id is the one the option
\* was built from.
C9_OptionRoundTrips ==
    /\ (script = "app2" /\ post_id # None) =>
           \E i \in RowsOfType(post_type) : Option(df[i]) = post_id.text
    /\ Clicked =>
           /\ metrics.post # None
           /\ \A i \in RowsOfType(post_type) :
                  Option(df[i]) = post_id.text => metrics.post.post_id = df[i].post_id

====
